---- MODULE Spec2Model ----
(***************************************************************************)
(* Model of app.py: the anonymous chatroom's alias registry, typing set,  *)
(* chat history, the Socket.IO event handlers that work on them and the   *)
(* purge thread.                                                          *)
(*                                                                         *)
(* Every event the transport dispatches runs one handler invocation.      *)
(* Handlers run concurrently and interleave at every access to shared     *)
(* state: each critical section, each unlocked read of a global or of the *)
(* clock and each emit is one step.  The three locks are threading.Lock   *)
(* objects: not reentrant, an acquire of a held lock waits until the lock *)
(* is released, whoever holds it.  A "with lock:" block whose body makes  *)
(* no blocking call is one step, enabled when the lock is free; a block   *)
(* whose body goes on to acquire a lock keeps the lock held across steps. *)
(***************************************************************************)
EXTENDS Integers, Sequences, FiniteSets, TLC

(***************************************************************************)
(* Bounds of the model.                                                    *)
(***************************************************************************)
\* The handler invocations that can run at the same time, by slot.
Slots == {1, 2}
\* Records in chat_history.
MaxHistory == 1
\* Clock advances in one behaviour.
MaxTicks == 1
\* Connection identities the transport hands out, in this order.
Sids == <<"s1", "s2", "s3">>
\* The connections (indices of Sids) made in a behaviour of Spec, where every
\* event occurs.
Chatters == {1, 2}
\* Records in chat_history and clock advances in a behaviour of PurgeSpec,
\* where the purge thread runs.
MaxPurgeHistory == 2
MaxPurgeTicks == 3

(***************************************************************************)
(* Program constants.                                                      *)
(***************************************************************************)
PERSISTENCE_TIMEOUT_SECONDS == 60
\* Amounts by which the clock advances between two steps (seconds).
TickSteps == {PERSISTENCE_TIMEOUT_SECONDS}
HISTORY_RETENTION_SECONDS == 7200
\* Amounts by which the clock advances in PurgeSpec: a second and the
\* retention window.
PurgeTickSteps == {1, HISTORY_RETENTION_SECONDS}

\* Python's None and an optional value: <<>> is None, <<v>> is the value v.
None == <<>>
Some(v) == <<v>>
IsNone(o) == Len(o) = 0
Val(o) == o[1]

\* The sentinels of user_aliases.pop / user_aliases.get.
UnknownUser == "Unknown User"
UnknownAnon == "Unknown Anon"
\* Mutant: the alias without the counter.
NewAlias_NoNumber(n) == "Anon-User"

\* f"Anon-User-{current_anon_id}"
NewAlias(n) == "Anon-User-" \o ToString(n)

(***************************************************************************)
(* Texts are sequences of one-character strings.                           *)
(***************************************************************************)
UpperChars == <<"A","B","C","D","E","F","G","H","I","J","K","L","M",
                "N","O","P","Q","R","S","T","U","V","W","X","Y","Z">>
LowerChars == <<"a","b","c","d","e","f","g","h","i","j","k","l","m",
                "n","o","p","q","r","s","t","u","v","w","x","y","z">>
DigitChars == {"0","1","2","3","4","5","6","7","8","9"}
Range(s) == {s[i] : i \in DOMAIN s}
\* The characters str.strip() removes.
Whitespace == {" ", "\t", "\n", "\r"}
\* \w of the re module (ASCII part).
IsWordChar(c) == c \in Range(UpperChars) \cup Range(LowerChars) \cup DigitChars \cup {"_"}
\* Case folding of re.IGNORECASE (ASCII part).
Lower(c) ==
  IF c \in Range(UpperChars)
    THEN LowerChars[CHOOSE i \in DOMAIN UpperChars : UpperChars[i] = c]
    ELSE c

BAD_WORDS ==
  << <<"h","a","t","e">>, <<"h","a","r","a","s","s">>, <<"s","l","u","r">>,
     <<"o","f","f","e","n","s","i","v","e">>, <<"f","u","c","k">>,
     <<"s","h","i","t">>, <<"a","s","s">>, <<"b","a","s","t","a","r","d">>,
     <<"b","i","t","c","h">>, <<"c","o","c","k">>, <<"d","i","c","k">>,
     <<"w","h","o","r","e">>, <<"s","e","x">> >>

\* Mutant: the pattern without \b, a term matches inside a word too.
WordBoundary_None(txt, p) == TRUE

\* \b at the gap after position p of txt (p = 0: before the first character).
WordBoundary(txt, p) ==
  LET before == p >= 1 /\ p <= Len(txt) /\ IsWordChar(txt[p])
      after  == p + 1 >= 1 /\ p + 1 <= Len(txt) /\ IsWordChar(txt[p + 1])
  IN  before # after

\* Does r'\b' + word + r'\b' match txt at position i, ignoring case?
MatchAt(txt, word, i) ==
  /\ i + Len(word) - 1 <= Len(txt)
  /\ \A k \in 1..Len(word) : Lower(txt[i + k - 1]) = Lower(word[k])
  /\ WordBoundary(txt, i - 1)
  /\ WordBoundary(txt, i + Len(word) - 1)

Stars(n) == [k \in 1..n |-> "*"]

\* re.sub(pattern, '*' * len(word), txt, flags=re.IGNORECASE): the matches are
\* found left to right in txt, without overlap.
RECURSIVE ReSub(_, _, _)
ReSub(txt, word, i) ==
  IF i > Len(txt) THEN <<>>
  ELSE IF Len(word) > 0 /\ MatchAt(txt, word, i)
    THEN Stars(Len(word)) \o ReSub(txt, word, i + Len(word))
    ELSE <<txt[i]>> \o ReSub(txt, word, i + 1)

RECURSIVE CensorFrom(_, _)
CensorFrom(msg, w) ==
  IF w > Len(BAD_WORDS) THEN msg
  ELSE CensorFrom(ReSub(msg, BAD_WORDS[w], 1), w + 1)

censor_message(msg) == CensorFrom(msg, 1)

\* msg.strip()
RECURSIVE LStrip(_)
LStrip(txt) ==
  IF Len(txt) > 0 /\ txt[1] \in Whitespace THEN LStrip(Tail(txt)) ELSE txt
RECURSIVE RStrip(_)
RStrip(txt) ==
  IF Len(txt) > 0 /\ txt[Len(txt)] \in Whitespace
    THEN RStrip(SubSeq(txt, 1, Len(txt) - 1))
    ELSE txt
Strip(txt) == RStrip(LStrip(txt))

\* Mutant: "if msg:", the text is not stripped before the test.
HasText_NoStrip(msg) == ~IsNone(msg) /\ Len(Val(msg)) > 0

\* The test "msg and msg.strip()" of handle_send_message, msg an optional text.
HasText(msg) == ~IsNone(msg) /\ Len(Val(msg)) > 0 /\ Len(Strip(Val(msg))) > 0

(***************************************************************************)
(* Inputs of the events.                                                   *)
(***************************************************************************)
\* The auth argument of connect: <<>> for no auth (None or an empty dict),
\* <<a>> for {'alias': a}.
Auths == {None, Some(""), Some(NewAlias(1))}
\* data.get('msg') of send_message: missing, empty, whitespace, a text.
Datas == {None, Some(<<>>), Some(<<" ">>), Some(<<"A","s","s","!">>)}

VARIABLES
  user_aliases,        \* dict sid -> alias
  current_anon_id,     \* the alias counter
  alias_lock,          \* 0 when free, else the handler holding it
  temporary_sessions,  \* dict alias -> expiry instant
  typing_users,        \* set of aliases
  typing_lock,
  chat_history,        \* list of [alias, msg, timestamp]
  history_lock,
  handlers,            \* the handler invocations that run, by slot
  conn,                \* the transport's view of each connection identity
  emitted,             \* the event the step just taken emitted, if any
  now,                 \* the clock read by datetime.now() and time.time()
  ticks,               \* clock advances so far
  purge                \* the purge thread: its position and locals

vars == <<user_aliases, current_anon_id, alias_lock, temporary_sessions,
          typing_users, typing_lock, chat_history, history_lock, handlers,
          conn, emitted, now, ticks, purge>>

registry == <<user_aliases, current_anon_id, temporary_sessions>>
locks == <<alias_lock, typing_lock, history_lock>>
clock == <<now, ticks>>

\* The empty dict.
EmptyDict == [k \in {} |-> 0]
DictSet(d, k, v) == [x \in DOMAIN d \cup {k} |-> IF x = k THEN v ELSE d[x]]
DictDel(d, k) == [x \in DOMAIN d \ {k} |-> d[x]]
DictGet(d, k, default) == IF k \in DOMAIN d THEN d[k] ELSE default

(***************************************************************************)
(* Handler invocations.  A local is reset once the code no longer reads   *)
(* it.                                                                     *)
(***************************************************************************)
Handler(kind, sid, pc, provided_alias, msg) ==
  [kind |-> kind, sid |-> sid, pc |-> pc, provided_alias |-> provided_alias,
   msg |-> msg, alias |-> "", is_reconnect |-> FALSE, count |-> 0,
   typists_list |-> {}, censored_msg |-> <<>>, timestamp |-> 0]

\* A slot that runs no handler.
IdleHandler == Handler("", "", "idle", None, None)
InFlight == {h \in Slots : handlers[h].pc # "idle"}

\* The transport starts the handler of an event in the first free slot.
Dispatch(hd) ==
  /\ InFlight # Slots
  /\ LET h == CHOOSE f \in Slots \ InFlight : \A g \in Slots \ InFlight : f <= g
     IN  handlers' = [handlers EXCEPT ![h] = hd]

Goto(h, pc) == handlers' = [handlers EXCEPT ![h].pc = pc]
\* The handler returns.
Return(h) == handlers' = [handlers EXCEPT ![h] = IdleHandler]

\* socketio.emit / emit: room is "sid" (the client of the handler only), "all"
\* or "others" (broadcast=True, include_self=False).
Event(name, payload, room, sid) ==
  [event |-> name, payload |-> payload, room |-> room, sid |-> sid]
NoEvent == Event("", <<>>, "", "")
Emit(e) == emitted' = e
\* A step that emits nothing.
Silent == emitted' = NoEvent

\* The purge thread at position pc of purge_messages_loop.  Its locals keep
\* their values from one cycle of the loop to the next.
PurgeThread(pc, cutoff_time, removed_count) ==
  [pc |-> pc, cutoff_time |-> cutoff_time, removed_count |-> removed_count]

Init ==
  /\ user_aliases = EmptyDict
  /\ current_anon_id = 0
  /\ alias_lock = 0
  /\ temporary_sessions = EmptyDict
  /\ typing_users = {}
  /\ typing_lock = 0
  /\ chat_history = <<>>
  /\ history_lock = 0
  /\ handlers = [h \in Slots |-> IdleHandler]
  /\ conn = [s \in Range(Sids) |-> "fresh"]
  /\ emitted = NoEvent
  /\ now = 0
  /\ ticks = 0
  /\ purge = PurgeThread("p_start", 0, 0)


(***************************************************************************)
(* Events dispatched by the transport.  A connect comes with the next      *)
(* unused connection identity, and the connection is open to the client's  *)
(* events once handle_connect has returned.  A disconnect closes it, also  *)
(* while handle_connect still runs.  The handler of an event may run after *)
(* later events of the same connection were handled.                       *)
(***************************************************************************)
on_connect(i, auth) ==
  /\ conn[Sids[i]] = "fresh"
  /\ \A j \in DOMAIN Sids : j < i => conn[Sids[j]] # "fresh"
  /\ conn' = [conn EXCEPT ![Sids[i]] = "connecting"]
  /\ Dispatch(Handler("connect", Sids[i], "c_alias", auth, None))
  /\ Silent
  /\ UNCHANGED <<registry, locks, typing_users, chat_history, clock, purge>>

on_disconnect(i) ==
  /\ conn[Sids[i]] \in {"connecting", "open"}
  /\ conn' = [conn EXCEPT ![Sids[i]] = "closed"]
  /\ Dispatch(Handler("disconnect", Sids[i], "d_release", None, None))
  /\ Silent
  /\ UNCHANGED <<registry, locks, typing_users, chat_history, clock, purge>>

\* Texts that handlers in flight are about to append to chat_history.
Appending == {h \in Slots : handlers[h].kind = "send_message" /\ HasText(handlers[h].msg)}

\* A text of data fits in a history bounded by max records.
Room(data, max) == HasText(data) => Len(chat_history) + Cardinality(Appending) < max

on_send_message(i, data) ==
  /\ conn[Sids[i]] = "open"
  /\ Dispatch(Handler("send_message", Sids[i], "m_alias", None, data))
  /\ Silent
  /\ UNCHANGED <<registry, locks, typing_users, chat_history, clock, conn, purge>>

on_is_typing(i) ==
  /\ conn[Sids[i]] = "open"
  /\ Dispatch(Handler("is_typing", Sids[i], "i_alias", None, None))
  /\ Silent
  /\ UNCHANGED <<registry, locks, typing_users, chat_history, clock, conn, purge>>

on_not_typing(i) ==
  /\ conn[Sids[i]] = "open"
  /\ Dispatch(Handler("not_typing", Sids[i], "n_alias", None, None))
  /\ Silent
  /\ UNCHANGED <<registry, locks, typing_users, chat_history, clock, conn, purge>>

\* Time passes.
Tick(d) ==
  /\ now' = now + d
  /\ ticks' = ticks + 1
  /\ Silent
  /\ UNCHANGED <<registry, locks, typing_users, chat_history, handlers, conn, purge>>

(***************************************************************************)
(* The alias registry.                                                     *)
(***************************************************************************)
\* Mutant: the counter is read but not incremented.
get_alias_or_reconnect_NoIncrement(sid, provided_alias) ==
  IF /\ ~IsNone(provided_alias)
     /\ Val(provided_alias) # ""
     /\ Val(provided_alias) \in DOMAIN temporary_sessions
     /\ now < temporary_sessions[Val(provided_alias)]
  THEN [alias |-> Val(provided_alias), is_reconnect |-> TRUE,
        user_aliases |-> DictSet(user_aliases, sid, Val(provided_alias)),
        temporary_sessions |-> DictDel(temporary_sessions, Val(provided_alias)),
        current_anon_id |-> current_anon_id]
  ELSE [alias |-> NewAlias(current_anon_id + 1), is_reconnect |-> FALSE,
        user_aliases |-> DictSet(user_aliases, sid, NewAlias(current_anon_id + 1)),
        temporary_sessions |-> temporary_sessions,
        current_anon_id |-> current_anon_id]

\* Mutant: the reservation is not deleted on a reconnect.
get_alias_or_reconnect_NoDelete(sid, provided_alias) ==
  IF /\ ~IsNone(provided_alias)
     /\ Val(provided_alias) # ""
     /\ Val(provided_alias) \in DOMAIN temporary_sessions
     /\ now < temporary_sessions[Val(provided_alias)]
  THEN [alias |-> Val(provided_alias), is_reconnect |-> TRUE,
        user_aliases |-> DictSet(user_aliases, sid, Val(provided_alias)),
        temporary_sessions |-> temporary_sessions,
        current_anon_id |-> current_anon_id]
  ELSE [alias |-> NewAlias(current_anon_id + 1), is_reconnect |-> FALSE,
        user_aliases |-> DictSet(user_aliases, sid, NewAlias(current_anon_id + 1)),
        temporary_sessions |-> temporary_sessions,
        current_anon_id |-> current_anon_id + 1]

\* Mutant: "datetime.now() <= expiry_time", the expiry instant still reconnects.
get_alias_or_reconnect_AtExpiry(sid, provided_alias) ==
  IF /\ ~IsNone(provided_alias)
     /\ Val(provided_alias) # ""
     /\ Val(provided_alias) \in DOMAIN temporary_sessions
     /\ now <= temporary_sessions[Val(provided_alias)]
  THEN [alias |-> Val(provided_alias), is_reconnect |-> TRUE,
        user_aliases |-> DictSet(user_aliases, sid, Val(provided_alias)),
        temporary_sessions |-> DictDel(temporary_sessions, Val(provided_alias)),
        current_anon_id |-> current_anon_id]
  ELSE [alias |-> NewAlias(current_anon_id + 1), is_reconnect |-> FALSE,
        user_aliases |-> DictSet(user_aliases, sid, NewAlias(current_anon_id + 1)),
        temporary_sessions |-> temporary_sessions,
        current_anon_id |-> current_anon_id + 1]

\* The state after get_alias_or_reconnect(sid, provided_alias) and its result.
get_alias_or_reconnect(sid, provided_alias) ==
  IF /\ ~IsNone(provided_alias)
     /\ Val(provided_alias) # ""
     /\ Val(provided_alias) \in DOMAIN temporary_sessions
     /\ now < temporary_sessions[Val(provided_alias)]
  THEN [alias |-> Val(provided_alias), is_reconnect |-> TRUE,
        user_aliases |-> DictSet(user_aliases, sid, Val(provided_alias)),
        temporary_sessions |-> DictDel(temporary_sessions, Val(provided_alias)),
        current_anon_id |-> current_anon_id]
  ELSE [alias |-> NewAlias(current_anon_id + 1), is_reconnect |-> FALSE,
        user_aliases |-> DictSet(user_aliases, sid, NewAlias(current_anon_id + 1)),
        temporary_sessions |-> temporary_sessions,
        current_anon_id |-> current_anon_id + 1]

\* Mutant: user_aliases.get instead of pop, the binding stays.
pop_and_reserve_KeepBinding(sid) ==
  LET alias == DictGet(user_aliases, sid, UnknownUser)
  IN  [alias |-> alias,
       user_aliases |-> user_aliases,
       temporary_sessions |->
         IF alias # UnknownUser
           THEN DictSet(temporary_sessions, alias, now + PERSISTENCE_TIMEOUT_SECONDS)
           ELSE temporary_sessions]

\* Mutant: the reservation expires at once, the timeout is not added.
pop_and_reserve_NoTimeout(sid) ==
  LET alias == DictGet(user_aliases, sid, UnknownUser)
  IN  [alias |-> alias,
       user_aliases |-> DictDel(user_aliases, sid),
       temporary_sessions |->
         IF alias # UnknownUser
           THEN DictSet(temporary_sessions, alias, now)
           ELSE temporary_sessions]

\* Mutant: no "if alias != 'Unknown User'", the sentinel is reserved too.
pop_and_reserve_ReserveSentinel(sid) ==
  LET alias == DictGet(user_aliases, sid, UnknownUser)
  IN  [alias |-> alias,
       user_aliases |-> DictDel(user_aliases, sid),
       temporary_sessions |->
         DictSet(temporary_sessions, alias, now + PERSISTENCE_TIMEOUT_SECONDS)]

\* The critical section of handle_disconnect: user_aliases.pop(sid, 'Unknown
\* User'), and the reservation of the alias popped.
pop_and_reserve(sid) ==
  LET alias == DictGet(user_aliases, sid, UnknownUser)
  IN  [alias |-> alias,
       user_aliases |-> DictDel(user_aliases, sid),
       temporary_sessions |->
         IF alias # UnknownUser
           THEN DictSet(temporary_sessions, alias, now + PERSISTENCE_TIMEOUT_SECONDS)
           ELSE temporary_sessions]

\* The chat_history without timestamps, as sent in 'history'.
history_to_send ==
  [k \in DOMAIN chat_history |->
     [alias |-> chat_history[k].alias, msg |-> chat_history[k].msg]]

(***************************************************************************)
(* Steps of the handlers.  h is the slot of a handler invocation.          *)
(***************************************************************************)
\* Where broadcast_user_count() returns to.
AfterUserCount(kind) == IF kind = "connect" THEN "bt_snap" ELSE "d_leave"
\* Where broadcast_typists() returns to.
AfterTypists(kind) ==
  CASE kind = "connect" -> "c_set_alias"
    [] kind = "disconnect" -> "d_texit"
    [] kind = "send_message" -> "m_texit"
    [] kind = "is_typing" -> "i_texit"
    [] OTHER -> "n_texit"

\* "with lock:" can enter: threading.Lock is free.
CanAcquire(lock, h) == lock = 0

broadcast_user_count(h) ==
  LET H == handlers[h] IN
  /\ H.pc \in {"buc_count", "buc_emit"}
  /\ CASE H.pc = "buc_count" ->
            /\ CanAcquire(alias_lock, h)
            /\ handlers' = [handlers EXCEPT ![h].count = Cardinality(DOMAIN user_aliases),
                                             ![h].pc = "buc_emit"]
            /\ Silent
       [] OTHER ->
            /\ Emit(Event("user_count", [count |-> H.count], "all", H.sid))
            /\ handlers' = [handlers EXCEPT ![h].count = 0,
                                             ![h].pc = AfterUserCount(H.kind)]
  /\ UNCHANGED <<registry, locks, typing_users, chat_history, conn, clock, purge>>

broadcast_typists(h) ==
  LET H == handlers[h] IN
  /\ H.pc \in {"bt_snap", "bt_emit"}
  /\ CASE H.pc = "bt_snap" ->
            /\ CanAcquire(typing_lock, h)
            /\ handlers' = [handlers EXCEPT ![h].typists_list = typing_users,
                                             ![h].pc = "bt_emit"]
            /\ Silent
       [] OTHER ->
            /\ Emit(Event("typists", [typists |-> H.typists_list], "all", H.sid))
            /\ handlers' = [handlers EXCEPT ![h].typists_list = {},
                                             ![h].pc = AfterTypists(H.kind)]
  /\ UNCHANGED <<registry, locks, typing_users, chat_history, conn, clock, purge>>

handle_connect(h) ==
  LET H == handlers[h]
      r == get_alias_or_reconnect(H.sid, H.provided_alias)
  IN
  /\ H.pc \in {"c_alias", "c_set_alias", "c_history", "c_join"}
  /\ CASE H.pc = "c_alias" ->
            /\ CanAcquire(alias_lock, h)
            /\ user_aliases' = r.user_aliases
            /\ temporary_sessions' = r.temporary_sessions
            /\ current_anon_id' = r.current_anon_id
            /\ handlers' = [handlers EXCEPT ![h].alias = r.alias,
                                             ![h].is_reconnect = r.is_reconnect,
                                             ![h].pc = "buc_count"]
            /\ Silent
            /\ UNCHANGED <<conn>>
       [] H.pc = "c_set_alias" ->
            /\ Emit(Event("set_alias", [alias |-> H.alias], "sid", H.sid))
            /\ Goto(h, "c_history")
            /\ UNCHANGED <<registry, conn>>
       [] H.pc = "c_history" ->
            /\ CanAcquire(history_lock, h)
            /\ Emit(Event("history", [messages |-> history_to_send], "sid", H.sid))
            /\ Goto(h, "c_join")
            /\ UNCHANGED <<registry, conn>>
       [] OTHER ->
            /\ Emit(Event("message",
                          [alias |-> "SERVER",
                           msg |-> IF H.is_reconnect
                                     THEN H.alias \o " reconnected."
                                     ELSE H.alias \o " has joined the chat."],
                          "others", H.sid))
            /\ Return(h)
            \* the connection is acknowledged when the handler returns
            /\ conn' = [conn EXCEPT ![H.sid] = IF @ = "connecting" THEN "open" ELSE @]
            /\ UNCHANGED <<registry>>
  /\ UNCHANGED <<locks, typing_users, chat_history, clock, purge>>

handle_disconnect(h) ==
  LET H == handlers[h]
      r == pop_and_reserve(H.sid)
  IN
  /\ H.pc \in {"d_release", "d_typing", "d_texit", "d_leave"}
  /\ CASE H.pc = "d_release" ->
            /\ CanAcquire(alias_lock, h)
            /\ user_aliases' = r.user_aliases
            /\ temporary_sessions' = r.temporary_sessions
            /\ handlers' = [handlers EXCEPT ![h].alias = r.alias, ![h].pc = "d_typing"]
            /\ Silent
            /\ UNCHANGED <<current_anon_id, typing_users, typing_lock>>
       [] H.pc = "d_typing" ->
            \* broadcast_typists() is called with typing_lock held
            /\ CanAcquire(typing_lock, h)
            /\ IF H.alias \in typing_users
                 THEN /\ typing_users' = typing_users \ {H.alias}
                      /\ typing_lock' = h
                      /\ Goto(h, "bt_snap")
                 ELSE /\ Goto(h, "buc_count")
                      /\ UNCHANGED <<typing_users, typing_lock>>
            /\ Silent
            /\ UNCHANGED <<registry>>
       [] H.pc = "d_texit" ->
            /\ typing_lock' = 0
            /\ Goto(h, "buc_count")
            /\ Silent
            /\ UNCHANGED <<registry, typing_users>>
       [] OTHER ->
            /\ Emit(Event("message",
                          [alias |-> "SERVER",
                           msg |-> H.alias \o " has temporarily disconnected (timeout: "
                                     \o ToString(PERSISTENCE_TIMEOUT_SECONDS) \o "s)."],
                          "others", H.sid))
            /\ Return(h)
            /\ UNCHANGED <<registry, typing_users, typing_lock>>
  /\ UNCHANGED <<alias_lock, chat_history, history_lock, conn, clock, purge>>

handle_send_message(h) ==
  LET H == handlers[h] IN
  /\ H.pc \in {"m_alias", "m_typing", "m_texit", "m_check", "m_append", "m_emit"}
  /\ CASE H.pc = "m_alias" ->
            \* user_aliases is read without alias_lock
            /\ handlers' = [handlers EXCEPT
                 ![h].alias = DictGet(user_aliases, H.sid, UnknownAnon),
                 ![h].pc = "m_typing"]
            /\ Silent
            /\ UNCHANGED <<typing_users, typing_lock, chat_history>>
       [] H.pc = "m_typing" ->
            \* broadcast_typists() is called with typing_lock held
            /\ CanAcquire(typing_lock, h)
            /\ IF H.alias \in typing_users
                 THEN /\ typing_users' = typing_users \ {H.alias}
                      /\ typing_lock' = h
                      /\ Goto(h, "bt_snap")
                 ELSE /\ Goto(h, "m_check")
                      /\ UNCHANGED <<typing_users, typing_lock>>
            /\ Silent
            /\ UNCHANGED <<chat_history>>
       [] H.pc = "m_texit" ->
            /\ typing_lock' = 0
            /\ Goto(h, "m_check")
            /\ Silent
            /\ UNCHANGED <<typing_users, chat_history>>
       [] H.pc = "m_check" ->
            \* message_data is built, with time.time(), before history_lock is taken
            /\ IF HasText(H.msg)
                 THEN handlers' = [handlers EXCEPT
                        ![h].censored_msg = censor_message(Val(H.msg)),
                        ![h].timestamp = now,
                        ![h].pc = "m_append"]
                 ELSE Return(h)
            /\ Silent
            /\ UNCHANGED <<typing_users, typing_lock, chat_history>>
       [] H.pc = "m_append" ->
            /\ CanAcquire(history_lock, h)
            /\ chat_history' = Append(chat_history,
                 [alias |-> H.alias, msg |-> H.censored_msg, timestamp |-> H.timestamp])
            /\ Goto(h, "m_emit")
            /\ Silent
            /\ UNCHANGED <<typing_users, typing_lock>>
       [] OTHER ->
            /\ Emit(Event("message", [alias |-> H.alias, msg |-> H.censored_msg],
                          "all", H.sid))
            /\ Return(h)
            /\ UNCHANGED <<typing_users, typing_lock, chat_history>>
  /\ UNCHANGED <<registry, alias_lock, history_lock, conn, clock, purge>>

handle_is_typing(h) ==
  LET H == handlers[h] IN
  /\ H.pc \in {"i_alias", "i_typing", "i_texit"}
  /\ CASE H.pc = "i_alias" ->
            /\ handlers' = [handlers EXCEPT
                 ![h].alias = DictGet(user_aliases, H.sid, UnknownAnon),
                 ![h].pc = "i_typing"]
            /\ UNCHANGED <<typing_users, typing_lock>>
       [] H.pc = "i_typing" ->
            \* broadcast_typists() is called with typing_lock held
            /\ CanAcquire(typing_lock, h)
            /\ IF H.alias \notin typing_users
                 THEN /\ typing_users' = typing_users \cup {H.alias}
                      /\ typing_lock' = h
                      /\ Goto(h, "bt_snap")
                 ELSE /\ Return(h)
                      /\ UNCHANGED <<typing_users, typing_lock>>
       [] OTHER ->
            /\ typing_lock' = 0
            /\ Return(h)
            /\ UNCHANGED <<typing_users>>
  /\ Silent
  /\ UNCHANGED <<registry, alias_lock, chat_history, history_lock, conn, clock, purge>>

\* Mutant: no "if alias in typing_users", the broadcast is made in any case.
handle_not_typing_Unconditional(h) ==
  LET H == handlers[h] IN
  /\ H.pc \in {"n_alias", "n_typing", "n_texit"}
  /\ CASE H.pc = "n_alias" ->
            /\ handlers' = [handlers EXCEPT
                 ![h].alias = DictGet(user_aliases, H.sid, UnknownAnon),
                 ![h].pc = "n_typing"]
            /\ UNCHANGED <<typing_users, typing_lock>>
       [] H.pc = "n_typing" ->
            /\ CanAcquire(typing_lock, h)
            /\ typing_users' = typing_users \ {H.alias}
            /\ typing_lock' = h
            /\ Goto(h, "bt_snap")
       [] OTHER ->
            /\ typing_lock' = 0
            /\ Return(h)
            /\ UNCHANGED <<typing_users>>
  /\ Silent
  /\ UNCHANGED <<registry, alias_lock, chat_history, history_lock, conn, clock, purge>>

handle_not_typing(h) ==
  LET H == handlers[h] IN
  /\ H.pc \in {"n_alias", "n_typing", "n_texit"}
  /\ CASE H.pc = "n_alias" ->
            /\ handlers' = [handlers EXCEPT
                 ![h].alias = DictGet(user_aliases, H.sid, UnknownAnon),
                 ![h].pc = "n_typing"]
            /\ UNCHANGED <<typing_users, typing_lock>>
       [] H.pc = "n_typing" ->
            \* broadcast_typists() is called with typing_lock held
            /\ CanAcquire(typing_lock, h)
            /\ IF H.alias \in typing_users
                 THEN /\ typing_users' = typing_users \ {H.alias}
                      /\ typing_lock' = h
                      /\ Goto(h, "bt_snap")
                 ELSE /\ Return(h)
                      /\ UNCHANGED <<typing_users, typing_lock>>
       [] OTHER ->
            /\ typing_lock' = 0
            /\ Return(h)
            /\ UNCHANGED <<typing_users>>
  /\ Silent
  /\ UNCHANGED <<registry, alias_lock, chat_history, history_lock, conn, clock, purge>>

(***************************************************************************)
(* The purge thread, started when the module is loaded.                    *)
(***************************************************************************)
\* Mutant: "msg['timestamp'] >= cutoff_time", a record at the cutoff is kept.
new_history_KeepCutoff(cutoff_time) ==
  SelectSeq(chat_history, LAMBDA msg : msg.timestamp >= cutoff_time)

\* Mutant: the filter drops the first record it meets that is too old and
\* keeps the rest.
new_history_DropOne(cutoff_time) ==
  LET old == {k \in DOMAIN chat_history : ~(chat_history[k].timestamp > cutoff_time)}
  IN  IF old = {} THEN chat_history
      ELSE LET k == CHOOSE x \in old : \A y \in old : x <= y
           IN  SubSeq(chat_history, 1, k - 1) \o SubSeq(chat_history, k + 1, Len(chat_history))

\* [msg for msg in chat_history if msg['timestamp'] > cutoff_time]
new_history(cutoff_time) ==
  SelectSeq(chat_history, LAMBDA msg : msg.timestamp > cutoff_time)

\* Mutant: no "except Exception", an exception ends the thread.
OnException_Uncaught == "p_dead"

\* Where an exception raised in the body of a cycle goes: "except Exception".
OnException == "p_except"

\* One step of purge_messages_loop.  The body of a cycle can raise at its first
\* statement; "except Exception" then takes the thread to the same sleep.
\* time.sleep suspends the thread and is one step: the sleep ends.  The clock
\* is the wall clock, which advances on its own (Tick).
purge_messages_loop ==
  /\ purge.pc \in {"p_start", "p_purge", "p_sleep", "p_except"}
  /\ CASE purge.pc = "p_start" ->
            /\ \E raised \in BOOLEAN :
                 purge' = IF raised
                            THEN [purge EXCEPT !.pc = OnException]
                            ELSE [purge EXCEPT !.pc = "p_purge",
                                               !.cutoff_time = now - HISTORY_RETENTION_SECONDS]
            /\ UNCHANGED chat_history
       [] purge.pc = "p_purge" ->
            /\ CanAcquire(history_lock, 0)
            /\ LET removed_count == Len(chat_history) - Len(new_history(purge.cutoff_time))
               IN  /\ chat_history' = IF removed_count > 0
                                        THEN new_history(purge.cutoff_time)
                                        ELSE chat_history
                   /\ purge' = [purge EXCEPT !.pc = "p_sleep",
                                             !.removed_count = removed_count]
       [] OTHER ->
            \* "p_sleep" and "p_except": time.sleep(PURGE_INTERVAL_SECONDS)
            /\ purge' = [purge EXCEPT !.pc = "p_start"]
            /\ UNCHANGED chat_history
  /\ Silent
  /\ UNCHANGED <<registry, locks, typing_users, handlers, conn, clock>>

\* One step of the handler invocation in slot h.
Step(h) ==
  \/ handle_connect(h)
  \/ handle_disconnect(h)
  \/ handle_send_message(h)
  \/ handle_is_typing(h)
  \/ handle_not_typing(h)
  \/ broadcast_user_count(h)
  \/ broadcast_typists(h)

\* Every event: the connections of Chatters connect, send, type and disconnect.
Next ==
  \/ \E i \in Chatters, auth \in Auths : on_connect(i, auth)
  \/ \E i \in DOMAIN Sids : on_disconnect(i)
  \/ \E i \in DOMAIN Sids, data \in Datas :
       Room(data, MaxHistory) /\ on_send_message(i, data)
  \/ \E i \in DOMAIN Sids : on_is_typing(i)
  \/ \E i \in DOMAIN Sids : on_not_typing(i)
  \/ \E d \in TickSteps : ticks < MaxTicks /\ Tick(d)
  \/ \E h \in Slots : Step(h)

Spec == Init /\ [][Next]_vars

\* One step of a handler of the connection lifecycle.
RegistryStep(h) ==
  \/ handle_connect(h)
  \/ handle_disconnect(h)
  \/ broadcast_user_count(h)
  \/ broadcast_typists(h)

\* The connection lifecycle alone: every connection connects and disconnects.
RegistryNext ==
  \/ \E i \in DOMAIN Sids, auth \in Auths : on_connect(i, auth)
  \/ \E i \in DOMAIN Sids : on_disconnect(i)
  \/ \E d \in TickSteps : ticks < MaxTicks /\ Tick(d)
  \/ \E h \in Slots : RegistryStep(h)

RegistrySpec == Init /\ [][RegistryNext]_vars

\* The texts sent in PurgeSpec.
PurgeDatas == {Some(<<"h","i">>)}

\* One step of a handler that reads or writes the history.
PurgeStep(h) ==
  \/ handle_connect(h)
  \/ handle_send_message(h)
  \/ handle_is_typing(h)
  \/ broadcast_user_count(h)
  \/ broadcast_typists(h)

\* The history: one connection sends messages while the purge thread runs.
PurgeNext ==
  \/ on_connect(1, None)
  \/ \E data \in PurgeDatas : Room(data, MaxPurgeHistory) /\ on_send_message(1, data)
  \/ on_is_typing(1)
  \/ \E d \in PurgeTickSteps : ticks < MaxPurgeTicks /\ Tick(d)
  \/ \E h \in Slots : PurgeStep(h)
  \/ purge_messages_loop

PurgeSpec == Init /\ [][PurgeNext]_vars

(***************************************************************************)
(* The texts censor_message is applied to: every term of BAD_WORDS in      *)
(* three case variants, alone, twice, and beside another term, with        *)
(* word-forming and other characters around it.                            *)
(***************************************************************************)
Upper(c) ==
  IF c \in Range(LowerChars)
    THEN UpperChars[CHOOSE i \in DOMAIN LowerChars : LowerChars[i] = c]
    ELSE c
Variants(word) ==
  { word,
    [k \in DOMAIN word |-> Upper(word[k])],
    [k \in DOMAIN word |-> IF k = 1 THEN Upper(word[k]) ELSE word[k]] }
Terms == UNION {Variants(BAD_WORDS[n]) : n \in DOMAIN BAD_WORDS}
Affixes == {<<>>, <<" ">>, <<"!">>, <<"x">>, <<"_">>, <<"1">>}
Gaps == {<<" ">>, <<"x">>, <<"-">>}
CensorTexts ==
  {p \o v \o q : p \in Affixes, v \in Terms, q \in Affixes}
  \cup {p \o v \o g \o w \o q :
          p \in {<<>>, <<"x">>}, v \in Variants(BAD_WORDS[7]), g \in Gaps,
          w \in Terms, q \in {<<>>, <<"!">>, <<"s">>}}

\* Connection s1 is bound to Anon-User-1 and the handler of a send_message
\* event of s1 has reached the test of its text.
CensorInit ==
  /\ user_aliases = DictSet(EmptyDict, Sids[1], NewAlias(1))
  /\ current_anon_id = 1
  /\ alias_lock = 0
  /\ temporary_sessions = EmptyDict
  /\ typing_users = {}
  /\ typing_lock = 0
  /\ chat_history = <<>>
  /\ history_lock = 0
  /\ \E txt \in CensorTexts :
       handlers = [h \in Slots |->
                     IF h = 1
                       THEN [Handler("send_message", Sids[1], "m_check", None, Some(txt))
                               EXCEPT !.alias = NewAlias(1)]
                       ELSE IdleHandler]
  /\ conn = [s \in Range(Sids) |-> IF s = Sids[1] THEN "open" ELSE "fresh"]
  /\ emitted = NoEvent
  /\ now = 0
  /\ ticks = 0
  /\ purge = PurgeThread("p_start", 0, 0)

CensorNext == \E h \in Slots : handle_send_message(h)

CensorSpec == CensorInit /\ [][CensorNext]_vars

\* The purge thread is scheduled whenever it can run.
FairPurgeSpec == PurgeSpec /\ WF_vars(purge_messages_loop)

\* The lock that the next step of handler h acquires (0 for none): the "with"
\* statement the handler stands at.
LockWanted(h) ==
  LET pc == handlers[h].pc IN
  CASE pc \in {"c_alias", "d_release", "buc_count"} -> alias_lock
    [] pc \in {"bt_snap", "d_typing", "m_typing", "i_typing", "n_typing"} -> typing_lock
    [] pc \in {"c_history", "m_append"} -> history_lock
    [] OTHER -> 0

\* Handler h waits for a lock that is held.
Blocked(h) == handlers[h].pc # "idle" /\ ~CanAcquire(LockWanted(h), h)

\* No handler can take a step: every handler in flight waits for a lock, and so
\* does the holder of each lock waited for.  Only a step of its holder releases
\* a lock, so the handlers in flight wait forever.
Halted == \A h \in Slots : handlers[h].pc = "idle" \/ Blocked(h)

(***************************************************************************)
(* Claims.                                                                 *)
(***************************************************************************)
\* The aliases bound to live connections.
LiveAliases == {user_aliases[s] : s \in DOMAIN user_aliases}

\* Handler h runs the critical section of handle_connect in this step.
ConnectEnters(h) ==
  /\ handlers[h].kind = "connect"
  /\ handlers[h].pc = "c_alias"
  /\ handlers'[h].pc # "c_alias"

\* Handler h runs the critical section of handle_disconnect in this step.
DisconnectEnters(h) ==
  /\ handlers[h].kind = "disconnect"
  /\ handlers[h].pc = "d_release"
  /\ handlers'[h].pc # "d_release"

\* The optional alias a claims a reservation that has not expired.
ClaimsReserved(a) ==
  /\ ~IsNone(a)
  /\ Val(a) \in DOMAIN temporary_sessions
  /\ now < temporary_sessions[Val(a)]

\* C1: no two live connection identities are bound to the same alias.
C1_UniqueAliases ==
  \A s, t \in DOMAIN user_aliases : s # t => user_aliases[s] # user_aliases[t]

\* Two connections are live, one of them on an alias that an earlier
\* connection released.
C1_Witness ==
  /\ Cardinality(DOMAIN user_aliases) >= 2
  /\ \E s \in DOMAIN user_aliases : s # Sids[1] /\ user_aliases[s] = NewAlias(1)

\* C2: every handler invocation runs to completion and none waits forever for
\* a lock: while a handler is in flight, some handler can take a step.
C2_NoHandlerWaitsForever == (InFlight # {}) => ~Halted

\* Two connect handlers are dispatched, neither has entered its critical
\* section, and both claim the alias X, whose reservation has not expired.
Racing(h, g, X) ==
  /\ h # g
  /\ handlers[h].kind = "connect" /\ handlers[g].kind = "connect"
  /\ handlers[h].pc = "c_alias" /\ handlers[g].pc = "c_alias"
  /\ handlers[h].provided_alias = Some(X) /\ handlers[g].provided_alias = Some(X)
  /\ ClaimsReserved(Some(X))

C3_RaceStep ==
  \A h, g \in Slots : \A X \in DOMAIN temporary_sessions :
    (Racing(h, g, X) /\ ConnectEnters(h)) =>
      /\ handlers'[h].alias = X
      /\ handlers'[h].is_reconnect
      /\ user_aliases'[handlers[h].sid] = X
      /\ X \notin DOMAIN temporary_sessions'
      /\ handlers'[g] = handlers[g]
      /\ LET r == get_alias_or_reconnect(handlers[g].sid, handlers[g].provided_alias)'
         IN  /\ ~r.is_reconnect
             /\ r.alias # X
             /\ r.alias \notin LiveAliases'

C3_NotBoth ==
  \A h, g \in Slots :
    (/\ h # g
     /\ handlers[h].kind = "connect" /\ handlers[g].kind = "connect"
     /\ handlers[h].pc # "c_alias" /\ handlers[g].pc # "c_alias"
     /\ handlers[h].sid \in DOMAIN user_aliases
     /\ handlers[g].sid \in DOMAIN user_aliases)
    => /\ user_aliases[handlers[h].sid] # user_aliases[handlers[g].sid]
       /\ handlers[h].alias # handlers[g].alias

\* C3: of two connects racing for the unexpired reservation of X, the one that
\* enters the critical section first is bound to X as a reconnect and consumes
\* the reservation, so that the other, entering next, is given a fresh alias
\* and is no reconnect; the two are never bound to the same alias.
C3_RaceHasOneWinner == [][C3_RaceStep]_vars /\ []C3_NotBoth

\* Both racers have left the critical section: one on X as a reconnect, the
\* other on a fresh alias.
C3_Witness ==
  \E h, g \in Slots :
    /\ h # g
    /\ handlers[h].kind = "connect" /\ handlers[g].kind = "connect"
    /\ handlers[h].provided_alias = Some(NewAlias(1))
    /\ handlers[g].provided_alias = Some(NewAlias(1))
    /\ handlers[h].pc # "c_alias" /\ handlers[g].pc # "c_alias"
    /\ handlers[h].is_reconnect /\ handlers[h].alias = NewAlias(1)
    /\ ~handlers[g].is_reconnect /\ handlers[g].alias = NewAlias(2)

\* C4: no alias is bound to a live connection and a key of the reservation
\* table at the same time, expired entries included.
C4_LiveNotReserved == LiveAliases \cap DOMAIN temporary_sessions = {}

\* A connection is live on an alias that was reserved before, while the table
\* holds an expired entry.
C4_Witness ==
  /\ \E s \in DOMAIN user_aliases : s # Sids[1] /\ user_aliases[s] = NewAlias(1)
  /\ \E X \in DOMAIN temporary_sessions : temporary_sessions[X] <= now

C5_Step ==
  \A h \in Slots :
    LET H == handlers[h] IN
    /\ (DisconnectEnters(h) /\ H.sid \in DOMAIN user_aliases) =>
         /\ H.sid \notin DOMAIN user_aliases'
         /\ user_aliases[H.sid] \in DOMAIN temporary_sessions'
         /\ temporary_sessions'[user_aliases[H.sid]] = now + PERSISTENCE_TIMEOUT_SECONDS
    /\ (ConnectEnters(h) /\ ClaimsReserved(H.provided_alias)) =>
         /\ user_aliases'[H.sid] = Val(H.provided_alias)
         /\ handlers'[h].alias = Val(H.provided_alias)
         /\ handlers'[h].is_reconnect
         /\ Val(H.provided_alias) \notin DOMAIN temporary_sessions'
         /\ current_anon_id' = current_anon_id

\* C5: the disconnect of a connection bound to X reserves X until the
\* disconnect time plus the persistence timeout, and a connect that claims X
\* strictly before that instant is bound to X, is a reconnect, deletes the
\* reservation and leaves the counter as it is.
C5_ReconnectBeforeExpiry == [][C5_Step]_vars

\* A later connection has taken over the alias of the first as a reconnect.
C5_Witness ==
  \E h \in Slots :
    /\ handlers[h].kind = "connect"
    /\ handlers[h].sid # Sids[1]
    /\ handlers[h].provided_alias = Some(NewAlias(1))
    /\ handlers[h].is_reconnect
    /\ handlers[h].sid \in DOMAIN user_aliases
    /\ user_aliases[handlers[h].sid] = NewAlias(1)
    /\ NewAlias(1) \notin DOMAIN temporary_sessions
    /\ current_anon_id = 1

C6_Step ==
  \A h \in Slots :
    LET H == handlers[h] IN
    (ConnectEnters(h) /\ ~ClaimsReserved(H.provided_alias)) =>
      /\ handlers'[h].alias = NewAlias(current_anon_id + 1)
      /\ ~handlers'[h].is_reconnect
      /\ user_aliases'[H.sid] = NewAlias(current_anon_id + 1)
      /\ current_anon_id' = current_anon_id + 1
      /\ temporary_sessions' = temporary_sessions

\* C6: a connect whose claimed alias has no reservation (never reserved, or
\* consumed) or whose reservation has reached its expiry instant is bound to
\* the alias made from the counter plus one, is no reconnect, increments the
\* counter by one and leaves the reservation table unchanged.
C6_FreshOtherwise == [][C6_Step]_vars

\* A connect claimed X at the expiry instant of X's reservation and was given
\* a fresh alias; the lapsed entry is still in the table.
C6_Witness ==
  \E h \in Slots :
    /\ handlers[h].kind = "connect"
    /\ handlers[h].pc = "buc_count"
    /\ handlers[h].provided_alias = Some(NewAlias(1))
    /\ NewAlias(1) \in DOMAIN temporary_sessions
    /\ temporary_sessions[NewAlias(1)] = now
    /\ ~handlers[h].is_reconnect
    /\ handlers[h].alias = NewAlias(2)
    /\ current_anon_id = 2

\* C7: a send_message of an alias in the typing set removes the alias and
\* emits 'typists': its handler is never left waiting before the removal, the
\* alias still in the set, in a state where no handler can take a step.
C7_SendClearsTyping ==
  \A h \in Slots :
    (/\ handlers[h].kind = "send_message"
     /\ handlers[h].pc = "m_typing"
     /\ handlers[h].alias \in typing_users)
    => ~Halted

\* C8: when no handler is executing (each slot is idle or its handler waits
\* forever), every alias in the typing set is bound to a live connection.
C8_TypingSubsetOfLive == Halted => typing_users \subseteq LiveAliases

\* C9: every connect is answered with 'set_alias' and 'history': a connect
\* handler is never left short of these emits in a state where no handler can
\* take a step.
C9_ConnectAnswered ==
  \A h \in Slots :
    (/\ handlers[h].kind = "connect"
     /\ handlers[h].pc \in {"c_alias", "buc_count", "buc_emit", "bt_snap", "bt_emit",
                            "c_set_alias", "c_history"})
    => ~Halted

\* A text that is missing, empty or made of whitespace only.
Blank(msg) == IsNone(msg) \/ \A i \in DOMAIN Val(msg) : Val(msg)[i] \in Whitespace

C10_Step ==
  \A h \in Slots :
    (/\ handlers[h].kind = "send_message"
     /\ Blank(handlers[h].msg)
     /\ handlers'[h] # handlers[h])
    => /\ chat_history' = chat_history
       /\ emitted'.event # "message"
       /\ user_aliases' = user_aliases
       /\ temporary_sessions' = temporary_sessions
       /\ current_anon_id' = current_anon_id

\* C10: no step of a send_message handler whose text is missing, empty or all
\* whitespace appends to the history or emits 'message', and none changes the
\* presence mapping, the reservation table or the counter.
C10_BlankIsNoOp == [][C10_Step]_vars

\* The handler of a whitespace-only text is past the typing section, at the
\* test of the text.
C10_Witness ==
  \E h \in Slots :
    /\ handlers[h].kind = "send_message"
    /\ handlers[h].msg = Some(<<" ">>)
    /\ handlers[h].pc = "m_check"

(***************************************************************************)
(* The purge.                                                              *)
(***************************************************************************)
\* The purge thread computes the cutoff of a cycle.
PurgeEvaluates == purge.pc = "p_start" /\ purge'.pc = "p_purge"
\* The purge thread runs the critical section of a cycle.
PurgeRuns == purge.pc = "p_purge" /\ purge'.pc = "p_sleep"
\* The positions in the history of the records newer than cutoff.
Newer(cutoff) == {k \in DOMAIN chat_history : chat_history[k].timestamp > cutoff}
Timestamps == [k \in DOMAIN chat_history |-> chat_history[k].timestamp]

C11_Step ==
  /\ PurgeEvaluates => purge'.cutoff_time = now - HISTORY_RETENTION_SECONDS
  /\ PurgeRuns =>
       LET keep == Newer(purge.cutoff_time) IN
       /\ Len(chat_history') = Cardinality(keep)
       /\ \A k \in keep :
            chat_history'[Cardinality({j \in keep : j <= k})] = chat_history[k]
       /\ purge'.removed_count = Len(chat_history) - Cardinality(keep)

\* C11: a purge cycle evaluated at time now removes exactly the records with
\* timestamp <= now - HISTORY_RETENTION_SECONDS and keeps the others in their
\* order.
C11_PurgeRemovesExactlyOld == [][C11_Step]_vars

\* The example: records at t0 = 0 and t0 + retention + 1, the purge evaluated at
\* t0 + retention + 2 has removed one record and kept the second.
C11_Witness ==
  /\ purge.pc = "p_sleep"
  /\ purge.cutoff_time = 2
  /\ purge.removed_count = 1
  /\ Timestamps = <<HISTORY_RETENTION_SECONDS + 1>>

C12_Step ==
  PurgeRuns =>
    /\ Len(chat_history') - Len(new_history(purge.cutoff_time)') = 0
    /\ new_history(purge.cutoff_time)' = chat_history'

\* C12: the purge run again on the result of a purge, at the same evaluation
\* time, removes no record and leaves the history as the first purge left it.
C12_PurgeIdempotent == [][C12_Step]_vars

\* A purge has removed a record and kept another.
C12_Witness ==
  /\ purge.pc = "p_sleep"
  /\ purge.removed_count > 0
  /\ chat_history # <<>>

\* C13: the purge thread begins a cycle infinitely often, also after a cycle
\* that raised and while handlers wait for a lock.
C13_PurgeNeverStops == []<>(purge.pc = "p_purge" \/ purge.pc = "p_except")

\* A cycle has raised while a handler waits forever for a lock.
C13_Witness == purge.pc = "p_except" /\ Halted /\ InFlight # {}

(***************************************************************************)
(* The filter.                                                             *)
(***************************************************************************)
\* Term word occurs in txt at position i, in any case variant.
Occurs(txt, word, i) ==
  /\ i >= 1
  /\ i + Len(word) - 1 <= Len(txt)
  /\ \A k \in DOMAIN word : Lower(txt[i + k - 1]) = word[k]
\* The occurrence at i is a whole word: no word-forming character on either side.
StandsAlone(txt, word, i) ==
  /\ Occurs(txt, word, i)
  /\ i = 1 \/ ~IsWordChar(txt[i - 1])
  /\ i + Len(word) - 1 = Len(txt) \/ ~IsWordChar(txt[i + Len(word)])
\* Position p of txt lies in a whole-word occurrence of a disallowed term.
InWholeWord(txt, p) ==
  \E n \in DOMAIN BAD_WORDS : \E i \in 1..p :
    p < i + Len(BAD_WORDS[n]) /\ StandsAlone(txt, BAD_WORDS[n], i)
Masked(txt) == [p \in DOMAIN txt |-> IF InWholeWord(txt, p) THEN "*" ELSE txt[p]]
\* The handlers that have filtered their text.
Filtered == {h \in Slots : handlers[h].kind = "send_message" /\ handlers[h].pc = "m_append"}

\* C14: the filtered text has the length of the text, a '*' at every position
\* of a whole-word occurrence of a disallowed term in any case variant, and the
\* character of the text everywhere else, occurrences inside a larger word
\* included.
C14_FilterMasksWholeWords ==
  \A h \in Filtered :
    /\ Len(handlers[h].censored_msg) = Len(Val(handlers[h].msg))
    /\ handlers[h].censored_msg = Masked(Val(handlers[h].msg))

\* A filtered text with a masked whole-word occurrence of a term and an
\* occurrence of a term inside a larger word, left as it was.
C14_Witness ==
  \E h \in Filtered :
    LET txt == Val(handlers[h].msg) IN
    /\ \E p \in DOMAIN txt : InWholeWord(txt, p) /\ handlers[h].censored_msg[p] = "*"
    /\ \E n \in DOMAIN BAD_WORDS : \E i \in DOMAIN txt :
         /\ Occurs(txt, BAD_WORDS[n], i)
         /\ ~StandsAlone(txt, BAD_WORDS[n], i)
         /\ \A k \in DOMAIN BAD_WORDS[n] : handlers[h].censored_msg[i + k - 1] = txt[i + k - 1]

(***************************************************************************)
(* Disconnects.                                                            *)
(***************************************************************************)
\* Handler h is the handler of a disconnect of an identity with no binding:
\* about to look the identity up, or past the lookup with the sentinel.
UnboundDisconnect(h) ==
  /\ handlers[h].kind = "disconnect"
  /\ IF handlers[h].pc = "d_release"
       THEN handlers[h].sid \notin DOMAIN user_aliases
       ELSE handlers[h].alias = UnknownUser

C15_Step ==
  \A h \in Slots :
    (UnboundDisconnect(h) /\ handlers'[h] # handlers[h]) =>
      /\ DisconnectEnters(h) => handlers'[h].alias = UnknownUser
      /\ user_aliases' = user_aliases
      /\ temporary_sessions' = temporary_sessions
      /\ current_anon_id' = current_anon_id

\* C15: the disconnect of an identity with no binding resolves to the sentinel
\* and no step of its handler changes the presence mapping, the reservation
\* table or the counter; the sentinel is never reserved.
C15_UnboundDisconnectIsNoOp ==
  [][C15_Step]_vars /\ [](UnknownUser \notin DOMAIN temporary_sessions)

\* The handler of a disconnect that came before the connect handler bound the
\* identity has looked the identity up.
C15_Witness ==
  \E h \in Slots :
    /\ handlers[h].kind = "disconnect"
    /\ handlers[h].pc = "d_typing"
    /\ handlers[h].alias = UnknownUser

\* C16: the handler of the disconnect of a bound connection goes on to remove
\* the alias from the typing set and to emit 'user_count' and the leave notice:
\* it is never left short of them in a state where no handler can take a step.
C16_DisconnectCompletes ==
  \A h \in Slots :
    (/\ handlers[h].kind = "disconnect"
     /\ handlers[h].pc # "d_release"
     /\ handlers[h].alias # UnknownUser)
    => ~Halted

(***************************************************************************)
(* Typing events.                                                          *)
(***************************************************************************)
\* Handler h is at the typing section of an event that asks for the state the
\* alias is in already.
NoChangeAsked(h) ==
  \/ /\ handlers[h].kind = "is_typing"
     /\ handlers[h].pc = "i_typing"
     /\ handlers[h].alias \in typing_users
  \/ /\ handlers[h].kind = "not_typing"
     /\ handlers[h].pc = "n_typing"
     /\ handlers[h].alias \notin typing_users

C17_Step ==
  \A h \in Slots :
    (handlers[h].kind \in {"is_typing", "not_typing"} /\ handlers'[h] # handlers[h]) =>
      /\ user_aliases' = user_aliases
      /\ temporary_sessions' = temporary_sessions
      /\ chat_history' = chat_history
      /\ NoChangeAsked(h) =>
           /\ typing_users' = typing_users
           /\ emitted'.event # "typists"
           /\ handlers'[h].pc \notin {"bt_snap", "bt_emit"}

\* C17: is_typing for an alias in the typing set and not_typing for an alias
\* not in it leave the set unchanged, emit no 'typists' and begin no broadcast;
\* no step of either handler changes the presence mapping, the reservation
\* table or the history.
C17_TypingIdempotent == [][C17_Step]_vars

\* The handler of a not_typing event of a bound alias that is not in the
\* typing set is at the typing section, the lock free.
C17_Witness ==
  \E h \in Slots :
    /\ handlers[h].kind = "not_typing"
    /\ handlers[h].pc = "n_typing"
    /\ handlers[h].alias \in LiveAliases
    /\ handlers[h].alias \notin typing_users
    /\ typing_lock = 0

(***************************************************************************)
(* The order of the history.                                               *)
(***************************************************************************)
\* C18: the timestamps of the records of the history never decrease along the
\* history.
C18_HistoryChronological ==
  \A i, j \in DOMAIN chat_history :
    i < j => chat_history[i].timestamp <= chat_history[j].timestamp

(***************************************************************************)
(* The alias counter.                                                      *)
(***************************************************************************)
\* The aliases in use or reserved, lapsed reservations included, and those
\* the handlers in flight hold.
KnownAliases ==
  LiveAliases \cup DOMAIN temporary_sessions
  \cup {handlers[h].alias : h \in {g \in Slots : handlers[g].kind \in {"connect", "disconnect"}
                                                  /\ handlers[g].alias \notin {"", UnknownUser}}}
\* The aliases generated so far.
Generated == {"Anon-User-" \o ToString(n) : n \in 1..current_anon_id}
\* The connect handlers that were given a fresh alias.
FreshConnects ==
  {h \in Slots : /\ handlers[h].kind = "connect"
                  /\ handlers[h].pc # "c_alias"
                  /\ ~handlers[h].is_reconnect}

C19_Step ==
  /\ current_anon_id' >= current_anon_id
  /\ \A h \in Slots :
       (ConnectEnters(h) /\ ~handlers'[h].is_reconnect) =>
         /\ current_anon_id' = current_anon_id + 1
         /\ handlers'[h].alias = "Anon-User-" \o ToString(current_anon_id')
         /\ handlers'[h].alias \notin KnownAliases

C19_Numbered ==
  /\ KnownAliases \subseteq Generated
  /\ \A h, g \in FreshConnects : h # g => handlers[h].alias # handlers[g].alias

\* C19: the counter never decreases; a fresh alias is Anon-User-N with N the
\* counter after its increment, greater than the N of every alias generated
\* before, and is no alias that is live, reserved or lapsed; two fresh connects
\* in flight hold different aliases.
C19_CounterMonotonic == [][C19_Step]_vars /\ []C19_Numbered

\* Two connect handlers in flight were given fresh aliases while a lapsed
\* reservation is in the table.
C19_Witness ==
  /\ \E h, g \in FreshConnects : h # g
  /\ \E a \in DOMAIN temporary_sessions : temporary_sessions[a] <= now

(***************************************************************************)
(* The user count.                                                         *)
(***************************************************************************)
\* Handler g changes the presence mapping no more and emits no 'user_count'
\* any more: it is past both, or the handler of another event, or none.
PastUserCount(g) ==
  CASE handlers[g].kind = "connect" ->
         handlers[g].pc \in {"bt_snap", "bt_emit", "c_set_alias", "c_history", "c_join"}
    [] handlers[g].kind = "disconnect" -> handlers[g].pc = "d_leave"
    [] OTHER -> TRUE

C20_Step ==
  \A h \in Slots :
    (/\ handlers[h].pc = "buc_emit"
     /\ handlers'[h].pc # "buc_emit"
     /\ \A g \in Slots \ {h} : PastUserCount(g))
    => emitted'.payload.count = Cardinality(DOMAIN user_aliases')

\* C20: a 'user_count' emitted when no other connect or disconnect handler is
\* still to change the presence mapping or to emit a 'user_count', the last
\* one before no such handler is in execution, carries the number of live
\* connections.
C20_UserCountNotStale == [][C20_Step]_vars

====
